---- MODULE Spec2Model ----
(***************************************************************************)
(* Playback engine of the audio-player library: the transport state shared *)
(* by controller clones and executor tasks (player.rs), the decoded track  *)
(* with its one-packet look-ahead (decoder.rs), the buffered resampler     *)
(* (resampler.rs) and the bounded sample queue drained by the device       *)
(* callback (output.rs).                                                   *)
(*                                                                         *)
(* Every critical section of the state mutex is one atomic step; a condvar *)
(* wait releases the mutex, so a waiter is a position ("paused"/"waiting") *)
(* that a notify_all (or a spurious wake-up) turns into "woken", from      *)
(* which the waiter re-acquires the mutex and re-checks its condition.     *)
(* A packet carries one frame of one channel; timestamps are packet        *)
(* indices 0..TrackLen-1. The clients make at most MaxOps API calls.       *)
(*                                                                         *)
(* The buffered resampler is also modelled on its own (ResamplerSpec), with *)
(* packets of 0..MaxFrames frames on NumChannels channels, driven the way  *)
(* the executor drives it: resample(packet), then next() until None.       *)
(*                                                                         *)
(* Four more parts are modelled on their own: the choice of the resampler  *)
(* and its chunk size (SelectSpec), the planar sample buffer (BufferSpec), *)
(* the track details read at open (DetailsSpec) and one decoded track      *)
(* under next() and seek() (DecodedSpec).                                  *)
(***************************************************************************)
EXTENDS Integers, Sequences, FiniteSets, TLC

\* ---- bounds -------------------------------------------------------------
MaxOps == 5         \* API calls made by the clients in one run
MaxDrains == 1      \* drain() calls among them
MaxTracks == 2      \* tracks opened and queued among them
TrackLen == 3       \* packets per track
QueueCap == 1       \* capacity of the output sample queue (device rate, scaled)
NumSeekers == 1     \* threads that call Controller::seek
ChunkSize == 2      \* resampler input chunk, in frames (max_frames_per_packet, scaled)
MaxFaults == 1      \* failures met in one run: track.next() errors before the end
                    \* of a stream, tracks no resampler can be built for, errors
                    \* of the resampling engine

NumChannels == 2    \* channels of a track given to the resampler on its own
MaxPackets == 4     \* packets pushed into the resampler on its own
MaxFrames == 3      \* frames of the largest of these packets
MaxTags == 2        \* tags of a metadata revision

\* Option::None, for the optional timestamps and durations
None == -1

Executors == 1..(MaxDrains + 1)
Tracks == 1..MaxTracks
Seekers == 1..NumSeekers
Channels == 1..NumChannels
\* seek targets: every packet timestamp, and TrackLen for "at or past the end"
SeekTargets == 0..TrackLen
\* a track's sample rate, relative to the output device's; "invalid" is a rate for
\* which the construction of the resampler fails
Rates == {"device", "other", "invalid"}

VARIABLES
    state,          \* AudioPlayerControllerState: running, playing, position, seek_position
    poisoned,       \* the state mutex is poisoned (a thread panicked holding its guard)
    executor,       \* AudioPlayer.executor: id of the player's current executor
    ppc,            \* position of the thread that owns the AudioPlayer
    nextTrack,      \* number of tracks opened so far
    ops,            \* number of API calls made so far
    pc,             \* per executor task: position in the closure of AudioPlayerExecutor::new
    rx,             \* per executor: tracks in its input channel, each <<id, rate>>
    tx,             \* per executor: the Sender is alive
    dropped,        \* per executor: the drop flag
    track,          \* per executor: the track it dequeued (0: none)
    progress,       \* per executor: DecodedTrack.progress of that track
    next_packet,    \* per executor: DecodedTrack.next_packet (None or a timestamp)
    reader,         \* per executor: timestamp of the next packet the reader yields
    resampler,      \* per executor: <<>> for None, <<input_buffer>> for Some
    out,            \* per executor: samples of the current packet not yet pushed
    queue,          \* per executor: output sample queue (sync_channel)
    stream,         \* per executor: the cpal stream is playing
    spc,            \* per seeker thread: position inside Controller::seek
    sreq,           \* per seeker thread: the target it passed to seek
    posTrack,       \* history: track whose progress was last published
    texec,          \* history: executor a track was queued on (0: not queued)
    life,           \* history: how far each track got
    drained,        \* history: tracks still in a channel when drain() was called
    firstWrite,     \* history: timestamp of the first sample written of a track
    sres,           \* history: what became of the seeker's blocking call so far
    seekEpoch,      \* history: the executor in place once the drain() calls made
                    \* before seek last stored a request are over
    obs,            \* history: last position() observation made while playing
    obsTrack,       \* history: the track that observation belongs to
    obsPending,     \* history: a seek request was pending at that observation
    pauseBuf,       \* history: samples in the output queues at the last pause()
                    \* (None once play() has been called since)
    delivered,      \* history: samples the callbacks took since that pause()
    cpanic,         \* history: a controller call has panicked in its caller
    repeated,       \* history: the last play()/pause() found playing as it sets it
    svcTrack,       \* history: the track the last serviced seek repositioned
    faults,         \* number of failures met so far
    seekFor,        \* history: the tracks that were loaded when seek() stored the
                    \* pending request ({} when none is pending)
    lag,            \* history: per executor and kind of control change (pause,
                    \* seek request, drop flag), the packets it has decoded
                    \* since a change it has yet to act on was made
    \* -- the parts modelled on their own, one field each --
    parts           \* buffered: SymphoniaResamplerBuffered on its own;
                    \* select_task: the executor's choice of a resampler, and
                    \* the path without one; sample_buf: SampleBuf on its own;
                    \* track_details: TrackDetails::new on its own;
                    \* decoded_track: DecodedTrack on its own

vars == <<state, poisoned, executor, ppc, nextTrack, ops, pc, rx, tx, dropped,
          track, progress, next_packet, reader, resampler, out, queue, stream,
          spc, sreq, posTrack, texec, life, drained, firstWrite, sres,
          seekEpoch, obs, obsTrack, obsPending, pauseBuf, delivered,
          cpanic, repeated, svcTrack, faults, seekFor, lag,
          parts>>

\* the variables of the player, and those of the parts modelled on their own
playVars == <<state, poisoned, executor, ppc, nextTrack, ops, pc, rx, tx, dropped,
              track, progress, next_packet, reader, resampler, out, queue, stream,
              spc, sreq, posTrack, texec, life, drained, firstWrite, sres,
              seekEpoch, obs, obsTrack, obsPending, pauseBuf, delivered,
              cpanic, repeated, svcTrack, faults, seekFor, lag>>
unitVars == <<parts>>

\* -- SymphoniaResamplerBuffered on its own --
buffered == parts.buffered
\* SymphoniaResamplerBuffered.queue: the packets pushed and not yet consumed, each
\* the sequence of its frame numbers
packets == buffered.packets
\* frames of the front packet already copied
buffer_position == buffered.buffer_position
\* SymphoniaResampler.input_buffer: per channel, the frames of the chunk being
\* filled
input_buffer == buffered.input_buffer
\* position of the caller: "idle" between two packets, "next" in the loop of
\* next() calls, "panicked"
rpc == buffered.rpc
\* history: the input buffers handed to the engine, in order
chunks == buffered.chunks
\* history: number of frames pushed so far
total == buffered.total
\* number of packets pushed so far
npackets == buffered.npackets

\* -- the executor's choice of a resampler, and the path without one --
select_task == parts.select_task
\* CodecParameters of the track taken from the channel
codec_params == select_task.codec_params
\* the `resampler` chosen for it: "unset" before, then "none", "some" (with its
\* chunk size) or "error"
selected == select_task.selected
\* history: the buffers track.next() has yielded, in order
buffers == select_task.buffers
\* history: the samples sent to the output queue, in order
sent == select_task.sent

\* -- SampleBuf on its own --
sample_buf == parts.sample_buf
\* SampleBuf.buffer: per channel, the samples of its frames
sample_buffer == sample_buf.sample_buffer
\* history: <<channels, frames, again>> of the resize last called on the buffer
\* (<< >> before one), again telling that the resize before it had the same
\* arguments
resized == sample_buf.resized
\* history: the samples the last write sent to the queue
written == sample_buf.written

\* -- TrackDetails::new on its own --
track_details == parts.track_details
\* the metadata revision of the format reader (<< >>: none)
container == track_details.container
\* the metadata revision found while probing (<< >>: none)
probed == track_details.probed
\* the TrackDetails built from them (<< >>: not built yet)
details == track_details.details

\* -- DecodedTrack on its own --
decoded_track == parts.decoded_track
\* DecodedTrack: progress, next_packet, and the timestamp of the next packet of
\* its reader
decoded == decoded_track.decoded
\* history: the calls made on it, in order, each with the seek target or the
\* timestamp of the packet next() took
calls == decoded_track.calls

transportVars == <<state, poisoned>>
playerVars == <<executor, ppc, nextTrack>>
execVars == <<pc, rx, tx, dropped, track, resampler, out, queue, stream>>
trackVars == <<progress, next_packet, reader>>
seekerVars == <<spc, sreq>>
histTrackVars == <<posTrack, texec, life, drained, firstWrite, seekEpoch>>
obsVars == <<obs, obsTrack, obsPending>>
pauseVars == <<pauseBuf, delivered, repeated>>

\* ---- helpers ------------------------------------------------------------

\* Condvar::notify_all on controller_condvar: every thread waiting in seek wakes.
NotifyController(w) ==
    [s \in Seekers |-> IF w[s] = "waiting" THEN "woken" ELSE w[s]]

\* A play()/pause() that notifies nobody.
NotifyNobody(p) == p

\* Condvar::notify_all on executor_condvar: every task in the paused wait wakes.
NotifyExecutor(p) ==
    [e \in Executors |-> IF p[e] = "paused" THEN "woken" ELSE p[e]]

\* The task of executor e is alive (its closure has neither returned nor panicked),
\* so the Receiver of its channel and its audio output still exist.
Alive(e) == pc[e] \notin {"unborn", "exited", "panicked"}

\* DecodedTrack::next_packet reads a packet: none is left at the end of the stream.
HasPacket(e) == next_packet[e] # None \/ reader[e] < TrackLen

\* DecodedTrack::seek succeeds when the reader can position at the target and a
\* packet is left there to pre-fetch.
SeekOk(d) == d < TrackLen

\* A receiver that yields the newest message instead of the oldest.
RecvLast(ch) == Len(ch)

\* mpsc::Receiver::recv yields the oldest message.
RecvIndex(ch) == 1

\* An inner loop whose condition never sees the drop flag.
LoopNeverDropped(e) == FALSE

\* The drop flag as the inner loop's condition reads it.
LoopDropped(e) == dropped[e]

\* A task whose guard of the state mutex lives to the end of the inner loop's body.
HoldsGuardInLoop(e) == pc[e] \in {"decode", "write"}

\* The task of executor e holds a MutexGuard of the state between two of its
\* steps: never, each lock scope of the closure (the blocks at player.rs 206-209,
\* 211-228 and 244-248) being a step of its own that ends before rx.recv(),
\* track.next() and output.write, and the paused wait releasing the mutex.
HoldsGuard(e) == FALSE

\* state.lock() has to wait: a task holds the guard (a task other than e).
Locked == \E e \in Executors : HoldsGuard(e)
LockedFor(e) == \E x \in Executors \ {e} : HoldsGuard(x)

\* The tracks the executors have taken from their channels and not let go of.
Loaded == {track[e] : e \in {x \in Executors : track[x] # 0}}

\* The tracks (ids) of the messages in a channel or of the samples in a queue.
InChannel(ch) == {ch[i][1] : i \in 1..Len(ch)}

\* Executor e is inside the inner loop of a track.
InLoop(e) == pc[e] \in {"loopcheck", "control", "paused", "woken", "decode", "write"}

\* A control change executor e has yet to act on: playing was set false and it is
\* not in the paused wait; a seek request is stored; its drop flag is set.
PendingPause(e) == InLoop(e) /\ ~state.playing /\ pc[e] \notin {"paused", "woken"}
PendingSeek(e) == InLoop(e) /\ state.seek_position # None
PendingDrop(e) == InLoop(e) /\ dropped[e]

\* The history of the packets decoded past a pending change, after a step: a
\* count starts anew once its change is acted on or withdrawn, and goes up when
\* the executor's track.next() yields a packet while the change is pending.
Lagged ==
    [e \in Executors |->
        LET n == IF pc[e] = "decode" /\ pc'[e] # "decode" /\ HasPacket(e)
                    THEN 1 ELSE 0
        IN [pause |-> IF PendingPause(e) /\ PendingPause(e)'
                         THEN lag[e].pause + n ELSE 0,
            seek  |-> IF PendingSeek(e) /\ PendingSeek(e)'
                         THEN lag[e].seek + n ELSE 0,
            drop  |-> IF PendingDrop(e) /\ PendingDrop(e)'
                         THEN lag[e].drop + n ELSE 0]]

\* ---- initial state ------------------------------------------------------
\* AudioPlayer::new: the controller state, and the first executor's task spawned
\* (its output opened and its stream started).
Init ==
    /\ state = [running |-> FALSE, playing |-> FALSE,
                position |-> None, seek_position |-> None]
    /\ poisoned = FALSE
    /\ executor = 1
    /\ ppc = "idle"
    /\ nextTrack = 0
    /\ ops = 0
    /\ pc = [e \in Executors |-> IF e = 1 THEN "recv" ELSE "unborn"]
    /\ rx = [e \in Executors |-> << >>]
    /\ tx = [e \in Executors |-> e = 1]
    /\ dropped = [e \in Executors |-> FALSE]
    /\ track = [e \in Executors |-> 0]
    /\ progress = [e \in Executors |-> 0]
    /\ next_packet = [e \in Executors |-> None]
    /\ reader = [e \in Executors |-> 0]
    /\ resampler = [e \in Executors |-> << >>]
    /\ out = [e \in Executors |-> << >>]
    /\ queue = [e \in Executors |-> << >>]
    /\ stream = [e \in Executors |-> e = 1]
    /\ spc = [s \in Seekers |-> "idle"]
    /\ sreq = [s \in Seekers |-> None]
    /\ posTrack = 0
    /\ texec = [t \in Tracks |-> 0]
    /\ life = [t \in Tracks |-> "unopened"]
    /\ drained = {}
    /\ firstWrite = [t \in Tracks |-> None]
    /\ sres = [s \in Seekers |-> "none"]
    /\ seekEpoch = 0
    /\ obs = None
    /\ obsTrack = 0
    /\ obsPending = FALSE
    /\ pauseBuf = None
    /\ delivered = 0
    /\ cpanic = FALSE
    /\ repeated = FALSE
    /\ svcTrack = 0
    /\ faults = 0
    /\ seekFor = {}
    /\ parts =
          [buffered |->
              [packets |-> << >>, buffer_position |-> 0,
               input_buffer |-> [c \in Channels |-> << >>], rpc |-> "idle",
               chunks |-> << >>, total |-> 0, npackets |-> 0],
           select_task |->
              [codec_params |-> << >>,
               selected |-> [resampler |-> "unset", chunk_size |-> None],
               buffers |-> << >>, sent |-> << >>],
           sample_buf |->
              [sample_buffer |-> << >>, resized |-> << >>, written |-> << >>],
           track_details |->
              [container |-> << >>, probed |-> << >>, details |-> << >>],
           decoded_track |->
              [decoded |-> [progress |-> 0, next_packet |-> None, reader |-> 0],
               calls |-> << >>]]
    /\ lag = [e \in Executors |-> [pause |-> 0, seek |-> 0, drop |-> 0]]

\* ---- the thread that owns the AudioPlayer -------------------------------

\* AudioPlayer::open then AudioPlayer::queue: the decoded track is sent on the
\* current executor's channel; the send fails once the task (the Receiver) is gone.
Queue(r) ==
    /\ ppc = "idle"
    /\ ops < MaxOps
    /\ nextTrack < MaxTracks
    /\ r = "invalid" => faults < MaxFaults
    /\ faults' = IF r = "invalid" THEN faults + 1 ELSE faults
    /\ ops' = ops + 1
    /\ LET t == nextTrack + 1 IN
       /\ nextTrack' = t
       /\ IF Alive(executor)
             THEN /\ rx' = [rx EXCEPT ![executor] = Append(@, <<t, r>>)]
                  /\ texec' = [texec EXCEPT ![t] = executor]
                  /\ life' = [life EXCEPT ![t] = "queued"]
             ELSE /\ life' = [life EXCEPT ![t] = "refused"]
                  /\ UNCHANGED <<rx, texec>>
    /\ UNCHANGED <<transportVars, executor, ppc, pc, tx, dropped, track, resampler,
                   out, queue, stream, trackVars, seekerVars, posTrack, drained, seekEpoch,
                   firstWrite, sres, obsVars>>
    /\ UNCHANGED pauseVars
    /\ UNCHANGED cpanic
    /\ UNCHANGED svcTrack
    /\ UNCHANGED unitVars
    /\ UNCHANGED seekFor
    /\ lag' = Lagged

\* AudioPlayer::drain, first half: the right-hand side of the assignment is
\* evaluated, AudioPlayerExecutor::new spawns the new task, which opens its output
\* and starts its stream.
DrainSpawn ==
    /\ ppc = "idle"
    /\ ops < MaxOps
    /\ executor <= MaxDrains
    /\ ops' = ops + 1
    /\ pc' = [pc EXCEPT ![executor + 1] = "recv"]
    /\ tx' = [tx EXCEPT ![executor + 1] = TRUE]
    /\ stream' = [stream EXCEPT ![executor + 1] = TRUE]
    /\ ppc' = "draining"
    /\ drained' = drained \cup InChannel(rx[executor])
    /\ UNCHANGED <<transportVars, executor, nextTrack, rx, dropped, track, resampler,
                   out, queue, trackVars, seekerVars, posTrack, texec, life,
                   firstWrite, seekEpoch, sres, obsVars>>
    /\ UNCHANGED pauseVars
    /\ UNCHANGED cpanic
    /\ UNCHANGED svcTrack
    /\ UNCHANGED faults
    /\ UNCHANGED unitVars
    /\ UNCHANGED seekFor
    /\ lag' = Lagged

\* AudioPlayer::drain, second half: the old executor is dropped in place (Drop sets
\* the flag, then its Sender is dropped and its JoinHandle detached) and the new one
\* is stored.
DrainDrop ==
    /\ ppc = "draining"
    /\ dropped' = [dropped EXCEPT ![executor] = TRUE]
    /\ tx' = [tx EXCEPT ![executor] = FALSE]
    /\ executor' = executor + 1
    /\ ppc' = "idle"
    /\ UNCHANGED <<transportVars, nextTrack, ops, pc, rx, track, resampler, out,
                   queue, stream, trackVars, seekerVars, histTrackVars, sres, obsVars>>
    /\ UNCHANGED pauseVars
    /\ UNCHANGED cpanic
    /\ UNCHANGED svcTrack
    /\ UNCHANGED faults
    /\ UNCHANGED unitVars
    /\ UNCHANGED seekFor
    /\ lag' = Lagged

\* AudioPlayer::wait_until_end, first half: the Sender is dropped.
WaitUntilEnd ==
    /\ ppc = "idle"
    /\ ops < MaxOps
    /\ ops' = ops + 1
    /\ tx' = [tx EXCEPT ![executor] = FALSE]
    /\ ppc' = "joining"
    /\ UNCHANGED <<transportVars, executor, nextTrack, pc, rx, dropped, track,
                   resampler, out, queue, stream, trackVars, seekerVars,
                   histTrackVars, sres, obsVars>>
    /\ UNCHANGED pauseVars
    /\ UNCHANGED cpanic
    /\ UNCHANGED svcTrack
    /\ UNCHANGED faults
    /\ UNCHANGED unitVars
    /\ UNCHANGED seekFor
    /\ lag' = Lagged

\* AudioPlayer::wait_until_end, second half: join returns when the task is over;
\* a task that panicked makes join().unwrap() panic. The executor is dropped after.
Join ==
    /\ ppc = "joining"
    /\ pc[executor] \in {"exited", "panicked"}
    /\ ppc' = IF pc[executor] = "exited" THEN "ended" ELSE "panicked"
    /\ dropped' = [dropped EXCEPT ![executor] = TRUE]
    /\ UNCHANGED <<transportVars, executor, nextTrack, ops, pc, rx, tx, track,
                   resampler, out, queue, stream, trackVars, seekerVars,
                   histTrackVars, sres, obsVars>>
    /\ UNCHANGED pauseVars
    /\ UNCHANGED cpanic
    /\ UNCHANGED svcTrack
    /\ UNCHANGED faults
    /\ UNCHANGED unitVars
    /\ UNCHANGED seekFor
    /\ lag' = Lagged

\* The AudioPlayer goes out of scope: Drop for AudioPlayerExecutor.
DropPlayer ==
    /\ ppc = "idle"
    /\ ops < MaxOps
    /\ ops' = ops + 1
    /\ dropped' = [dropped EXCEPT ![executor] = TRUE]
    /\ tx' = [tx EXCEPT ![executor] = FALSE]
    /\ ppc' = "dropped"
    /\ UNCHANGED <<transportVars, executor, nextTrack, pc, rx, track, resampler,
                   out, queue, stream, trackVars, seekerVars, histTrackVars, sres,
                   obsVars>>
    /\ UNCHANGED pauseVars
    /\ UNCHANGED cpanic
    /\ UNCHANGED svcTrack
    /\ UNCHANGED faults
    /\ UNCHANGED unitVars
    /\ UNCHANGED seekFor
    /\ lag' = Lagged

\* ---- controller clones --------------------------------------------------

\* The samples waiting in the output queues of executors 1..n.
RECURSIVE Buffered(_)
Buffered(n) == IF n = 0 THEN 0 ELSE Len(queue[n]) + Buffered(n - 1)

\* self.state.lock().unwrap() on a poisoned mutex: the controller call panics in
\* its caller and does nothing else.
CallPanics ==
    /\ cpanic' = TRUE
    /\ UNCHANGED <<transportVars, playerVars, execVars, trackVars, seekerVars,
                   histTrackVars, sres, obsVars, pauseVars>>
    /\ UNCHANGED svcTrack

\* A play()/pause() that flips the flag instead of setting it.
Toggled(st, v) == [st EXCEPT !.playing = ~st.playing]

\* play() and pause(): (*state).playing = v
SetPlaying(st, v) == [st EXCEPT !.playing = v]

\* AudioPlayerController::play
Play ==
    /\ ops < MaxOps
    /\ ~Locked
    /\ ops' = ops + 1
    /\ IF poisoned
          THEN CallPanics
          ELSE /\ state' = SetPlaying(state, TRUE)
               /\ pc' = NotifyExecutor(pc)
               /\ pauseBuf' = None
               /\ delivered' = 0
               /\ repeated' = state.playing
               /\ UNCHANGED <<poisoned, playerVars, rx, tx, dropped, track, resampler,
                              out, queue, stream, trackVars, seekerVars, histTrackVars,
                              sres, obsVars, cpanic, svcTrack>>
    /\ UNCHANGED faults
    /\ UNCHANGED unitVars
    /\ UNCHANGED seekFor
    /\ lag' = Lagged

\* AudioPlayerController::pause
Pause ==
    /\ ops < MaxOps
    /\ ~Locked
    /\ ops' = ops + 1
    /\ IF poisoned
          THEN CallPanics
          ELSE /\ state' = SetPlaying(state, FALSE)
               /\ pc' = NotifyExecutor(pc)
               /\ pauseBuf' = Buffered(MaxDrains + 1)
               /\ delivered' = 0
               /\ repeated' = ~state.playing
               /\ UNCHANGED <<poisoned, playerVars, rx, tx, dropped, track, resampler,
                              out, queue, stream, trackVars, seekerVars, histTrackVars,
                              sres, obsVars, cpanic, svcTrack>>
    /\ UNCHANGED faults
    /\ UNCHANGED unitVars
    /\ UNCHANGED seekFor
    /\ lag' = Lagged

\* A seek that stores its request whatever running is.
SeekNeverIgnored == FALSE

\* AudioPlayerController::seek returns at once, doing nothing, unless running.
SeekIgnored == ~state.running

\* AudioPlayerController::seek, from the call to the first wait (or the return):
\* nothing happens unless running; the request is stored, and the caller waits on
\* controller_condvar only while playing.
Seek(s, d) ==
    /\ ops < MaxOps
    /\ ~Locked
    /\ spc[s] = "idle"
    /\ ops' = ops + 1
    /\ IF poisoned
          THEN CallPanics
          ELSE /\ IF SeekIgnored
                     THEN /\ sres' = [sres EXCEPT ![s] = "ignored"]
                          /\ UNCHANGED <<state, spc, sreq, seekEpoch>>
                     ELSE /\ state' = [state EXCEPT !.seek_position = d]
                          /\ seekEpoch' =
                                IF ppc = "draining" THEN executor + 1 ELSE executor
                          /\ IF state.playing
                                THEN /\ spc' = [spc EXCEPT ![s] = "waiting"]
                                     /\ sreq' = [sreq EXCEPT ![s] = d]
                                     /\ sres' = [sres EXCEPT ![s] =
                                           IF \E e \in Executors :
                                                 track[e] # 0 /\ HasPacket(e)
                                              THEN "pending" ELSE "late"]
                                ELSE /\ sres' = [sres EXCEPT ![s] = "deferred"]
                                     /\ UNCHANGED <<spc, sreq>>
               /\ obs' = None
               /\ obsTrack' = 0
               /\ obsPending' = FALSE
               /\ UNCHANGED <<poisoned, playerVars, execVars, trackVars, posTrack,
                              texec, life, drained, firstWrite, pauseVars, cpanic,
                              svcTrack>>
    /\ UNCHANGED faults
    /\ UNCHANGED unitVars
    /\ seekFor' = IF poisoned \/ SeekIgnored THEN seekFor ELSE Loaded
    /\ lag' = Lagged

\* The loop condition of seek, as the woken caller evaluates it.
SeekMustWait == state.playing /\ state.seek_position # None

\* AudioPlayerController::seek, a caller woken from controller_condvar.wait: it
\* re-acquires the mutex (wait(..).unwrap() panics on a poisoned mutex) and either
\* waits again or returns.
SeekWoken(s) ==
    /\ spc[s] = "woken"
    /\ ~Locked
    /\ IF ~poisoned /\ SeekMustWait
          THEN /\ spc' = [spc EXCEPT ![s] = "waiting"]
               /\ UNCHANGED <<sreq, sres>>
          ELSE /\ spc' = [spc EXCEPT ![s] = IF poisoned THEN "panicked" ELSE "idle"]
               /\ sreq' = [sreq EXCEPT ![s] = None]
               /\ sres' = [sres EXCEPT ![s] = "none"]
    /\ UNCHANGED <<transportVars, playerVars, ops, execVars, trackVars,
                   histTrackVars, obsVars>>
    /\ UNCHANGED pauseVars
    /\ UNCHANGED cpanic
    /\ UNCHANGED svcTrack
    /\ UNCHANGED faults
    /\ UNCHANGED unitVars
    /\ UNCHANGED seekFor
    /\ lag' = Lagged

\* Condvar::wait may return without a notification.
SeekSpuriousWake(s) ==
    /\ spc[s] = "waiting"
    /\ spc' = [spc EXCEPT ![s] = "woken"]
    /\ UNCHANGED <<transportVars, playerVars, ops, execVars, trackVars, sreq,
                   histTrackVars, sres, obsVars>>
    /\ UNCHANGED pauseVars
    /\ UNCHANGED cpanic
    /\ UNCHANGED svcTrack
    /\ UNCHANGED faults
    /\ UNCHANGED unitVars
    /\ UNCHANGED seekFor
    /\ lag' = Lagged

\* AudioPlayerController::position, called by a front-end: NotPlaying when the
\* state holds none. The history keeps the last value seen while playing.
Position ==
    /\ ops < MaxOps
    /\ ~Locked
    /\ ops' = ops + 1
    /\ IF poisoned
          THEN CallPanics
          ELSE /\ IF state.position # None /\ state.playing
                     THEN /\ obs' = state.position
                          /\ obsTrack' = posTrack
                          /\ obsPending' = (state.seek_position # None)
                     ELSE /\ obs' = None
                          /\ obsTrack' = 0
                          /\ obsPending' = FALSE
               /\ UNCHANGED <<transportVars, playerVars, execVars, trackVars,
                              seekerVars, histTrackVars, sres, pauseVars, cpanic,
                              svcTrack>>
    /\ UNCHANGED faults
    /\ UNCHANGED unitVars
    /\ UNCHANGED seekFor
    /\ lag' = Lagged

\* ---- decoded track ------------------------------------------------------

\* DecodedTrack::next: the timestamp of the packet it yields, the cached one first.
NextTs(e) == IF next_packet[e] # None THEN next_packet[e] ELSE reader[e]

\* DecodedTrack::next: the reader's position afterwards.
NextReader(e) == IF next_packet[e] # None THEN reader[e] ELSE reader[e] + 1

\* ---- executor task ------------------------------------------------------

\* The history of the tracks once executor e lets go of its track: torn down after
\* its end of stream ("played"), after another error of track.next() ("failed"),
\* lost to an error of the resampler ("aborted"), or cut short otherwise ("cut").
Released(e) ==
    [t \in Tracks |->
        IF t = track[e]
           THEN (IF life[t] = "eos" THEN "played"
                 ELSE IF life[t] = "err" THEN "failed"
                 ELSE IF life[t] = "rserr" THEN "aborted"
                 ELSE "cut")
           ELSE life[t]]

\* The closure ends (how = "exited") or unwinds from a panic (how = "panicked"):
\* its Receiver (with the tracks still queued), its track, its resampler and its
\* output drop; the samples still in the output queue never reach the device, and
\* the history marks their tracks "truncated".
Unwind(e, how) ==
    /\ pc' = [pc EXCEPT ![e] = how]
    /\ rx' = [rx EXCEPT ![e] = << >>]
    /\ track' = [track EXCEPT ![e] = 0]
    /\ progress' = [progress EXCEPT ![e] = 0]
    /\ next_packet' = [next_packet EXCEPT ![e] = None]
    /\ reader' = [reader EXCEPT ![e] = 0]
    /\ resampler' = [resampler EXCEPT ![e] = << >>]
    /\ out' = [out EXCEPT ![e] = << >>]
    /\ queue' = [queue EXCEPT ![e] = << >>]
    /\ stream' = [stream EXCEPT ![e] = FALSE]
    /\ life' = [t \in Tracks |->
                  IF t \in InChannel(rx[e]) THEN "discarded"
                  ELSE IF t \in InChannel(queue[e] \o out[e]) THEN "truncated"
                  ELSE Released(e)[t]]

\* Where an error of the resampler takes the task: out of run() through `?`.
OnResamplerErr == "failing"

\* run().unwrap(): the closure returned an error and the task panics. No guard of
\* the state mutex is held.
ExecFail(e) ==
    /\ pc[e] = "failing"
    /\ Unwind(e, "panicked")
    /\ UNCHANGED <<transportVars, playerVars, ops, tx, dropped, seekerVars,
                   posTrack, texec, drained, seekEpoch, firstWrite, sres, obsVars>>
    /\ UNCHANGED pauseVars
    /\ UNCHANGED cpanic
    /\ UNCHANGED svcTrack
    /\ UNCHANGED faults
    /\ UNCHANGED unitVars
    /\ UNCHANGED seekFor
    /\ lag' = Lagged

\* rx.recv(): the next queued track, or the end of the outer loop once the channel
\* is empty and its Sender dropped. The resampler is chosen for the track: none
\* when its rate is the device's; an error of its construction is returned from
\* run() (return Err(err)?).
ExecRecv(e) ==
    /\ pc[e] = "recv"
    /\ rx[e] # << >> \/ ~tx[e]
    /\ IF rx[e] # << >>
          THEN LET i == RecvIndex(rx[e])
                   m == rx[e][i]
               IN /\ rx' = [rx EXCEPT ![e] =
                              SubSeq(@, 1, i - 1) \o SubSeq(@, i + 1, Len(@))]
                  /\ track' = [track EXCEPT ![e] = m[1]]
                  /\ resampler' = [resampler EXCEPT ![e] =
                        IF m[2] = "other" THEN << << >> >> ELSE << >>]
                  /\ life' = [life EXCEPT ![m[1]] =
                        IF m[2] = "invalid" THEN "rserr" ELSE "loaded"]
                  /\ pc' = [pc EXCEPT ![e] =
                        IF m[2] = "invalid" THEN OnResamplerErr ELSE "setup"]
                  /\ UNCHANGED <<out, queue, stream, trackVars>>
          ELSE Unwind(e, "exited")
    /\ UNCHANGED <<transportVars, playerVars, ops, tx, dropped, seekerVars,
                   posTrack, texec, drained, seekEpoch, firstWrite, sres, obsVars>>
    /\ UNCHANGED pauseVars
    /\ UNCHANGED cpanic
    /\ UNCHANGED svcTrack
    /\ UNCHANGED faults
    /\ UNCHANGED unitVars
    /\ UNCHANGED seekFor
    /\ lag' = Lagged

\* Per-track setup: running <- true under the mutex.
ExecSetup(e) ==
    /\ pc[e] = "setup"
    /\ ~LockedFor(e)
    /\ IF poisoned
          THEN /\ Unwind(e, "panicked")
               /\ UNCHANGED state
          ELSE /\ state' = [state EXCEPT !.running = TRUE]
               /\ pc' = [pc EXCEPT ![e] = "loopcheck"]
               /\ UNCHANGED <<rx, track, resampler, out, queue, stream, trackVars, life>>
    /\ UNCHANGED <<poisoned, playerVars, ops, tx, dropped, seekerVars,
                   posTrack, texec, drained, seekEpoch, firstWrite, sres, obsVars>>
    /\ UNCHANGED pauseVars
    /\ UNCHANGED cpanic
    /\ UNCHANGED svcTrack
    /\ UNCHANGED faults
    /\ UNCHANGED unitVars
    /\ UNCHANGED seekFor
    /\ lag' = Lagged

\* while !dropped.load(Acquire)
ExecLoopCheck(e) ==
    /\ pc[e] = "loopcheck"
    /\ pc' = [pc EXCEPT ![e] = IF LoopDropped(e) THEN "teardown" ELSE "control"]
    /\ UNCHANGED <<transportVars, playerVars, ops, rx, tx, dropped, track, resampler,
                   out, queue, stream, trackVars, seekerVars, histTrackVars, sres,
                   obsVars>>
    /\ UNCHANGED pauseVars
    /\ UNCHANGED cpanic
    /\ UNCHANGED svcTrack
    /\ UNCHANGED faults
    /\ UNCHANGED unitVars
    /\ UNCHANGED seekFor
    /\ lag' = Lagged

\* What the seekers' history records when the executor services target d while
\* its resampler holds the frames `kept`.
Serviced(d, kept) ==
    [s \in Seekers |->
        IF spc[s] \in {"waiting", "woken"} /\ sreq[s] = d
           THEN (IF kept THEN "residue" ELSE "applied")
           ELSE IF sres[s] = "deferred" THEN "none"
           ELSE sres[s]]

\* The resampler after the executor has serviced a seek.
ResamplerAfterSeek(e) == resampler[e]

\* The resampler r (None or Some) holds buffered input frames.
HoldsFrames(r) == r # << >> /\ r[1] # << >>

\* An executor that never finds the player paused.
NeverPaused(st) == FALSE

\* let paused = !state.playing; while !state.playing { .. }: what the executor
\* reads, under the mutex, to choose between the paused wait and decoding.
Paused(st) == ~st.playing

\* A task that panicked while it held the MutexGuard would poison it.
GuardHeldAlways == TRUE

\* An error inside the critical section leaves the closure `run` through `?`: the
\* return drops the MutexGuard, and only then does run().unwrap() panic. The guard
\* is not held when the task panics, so the mutex is not poisoned.
GuardHeldAtPanic == FALSE

\* The control section of the inner loop, to the point where the mutex is released:
\* service a pending seek (an error of track.seek leaves run() through `?`, with
\* the request still stored and nobody notified, and the task panics in
\* run().unwrap()), publish the position, and either go on to decode or pause the
\* stream and wait on executor_condvar.
ExecControl(e) ==
    /\ pc[e] = "control"
    /\ ~LockedFor(e)
    /\ LET d == state.seek_position IN
       IF poisoned \/ (d # None /\ ~SeekOk(d))
          THEN /\ Unwind(e, "panicked")
               /\ poisoned' = GuardHeldAtPanic
               /\ UNCHANGED <<state, seekerVars, posTrack, sres, svcTrack>>
          ELSE /\ IF d # None
                     THEN /\ progress' = [progress EXCEPT ![e] = d]
                          /\ next_packet' = [next_packet EXCEPT ![e] = d]
                          /\ reader' = [reader EXCEPT ![e] = d + 1]
                          /\ resampler' = [resampler EXCEPT ![e] = ResamplerAfterSeek(e)]
                          /\ spc' = NotifyController(spc)
                          /\ sres' = Serviced(d, HoldsFrames(resampler'[e]))
                          /\ svcTrack' = track[e]
                     ELSE UNCHANGED <<progress, next_packet, reader, resampler,
                                      spc, sres, svcTrack>>
               /\ state' = [state EXCEPT !.seek_position = None,
                                         !.position = progress'[e]]
               /\ posTrack' = track[e]
               /\ IF ~Paused(state)
                     THEN /\ pc' = [pc EXCEPT ![e] = "decode"]
                          /\ UNCHANGED stream
                     ELSE /\ pc' = [pc EXCEPT ![e] = "paused"]
                          /\ stream' = [stream EXCEPT ![e] = FALSE]
               /\ UNCHANGED <<poisoned, rx, track, out, queue, life, sreq>>
    /\ UNCHANGED <<playerVars, ops, tx, dropped, texec, drained, seekEpoch, firstWrite, obsVars>>
    /\ UNCHANGED pauseVars
    /\ UNCHANGED cpanic
    /\ UNCHANGED faults
    /\ UNCHANGED unitVars
    /\ seekFor' = IF state'.seek_position = None THEN {} ELSE seekFor
    /\ lag' = Lagged

\* A `paused` that is read once the wait is over, when playing is true again.
PausedReadAfterWait == FALSE

\* let paused = !state.playing, read before the loop of the wait: true in a task
\* that went through the wait, whose stream if paused { output.play()?; } resumes.
PausedReadBeforeWait == TRUE

\* The paused wait, woken: the mutex is re-acquired and playing re-checked; the
\* stream is paused again before waiting again, resumed before decoding.
ExecWoken(e) ==
    /\ pc[e] = "woken"
    /\ ~LockedFor(e)
    /\ IF poisoned
          THEN Unwind(e, "panicked")
          ELSE /\ pc' = [pc EXCEPT ![e] = IF ~Paused(state) THEN "decode" ELSE "paused"]
               /\ stream' = [stream EXCEPT ![e] =
                                IF Paused(state) THEN FALSE ELSE PausedReadBeforeWait \/ @]
               /\ UNCHANGED <<rx, track, resampler, out, queue, trackVars, life>>
    /\ UNCHANGED <<transportVars, playerVars, ops, tx, dropped, seekerVars,
                   posTrack, texec, drained, seekEpoch, firstWrite, sres, obsVars>>
    /\ UNCHANGED pauseVars
    /\ UNCHANGED cpanic
    /\ UNCHANGED svcTrack
    /\ UNCHANGED faults
    /\ UNCHANGED unitVars
    /\ UNCHANGED seekFor
    /\ lag' = Lagged

\* Condvar::wait may return without a notification.
ExecSpuriousWake(e) ==
    /\ pc[e] = "paused"
    /\ pc' = [pc EXCEPT ![e] = "woken"]
    /\ UNCHANGED <<transportVars, playerVars, ops, rx, tx, dropped, track, resampler,
                   out, queue, stream, trackVars, seekerVars, histTrackVars, sres,
                   obsVars>>
    /\ UNCHANGED pauseVars
    /\ UNCHANGED cpanic
    /\ UNCHANGED svcTrack
    /\ UNCHANGED faults
    /\ UNCHANGED unitVars
    /\ UNCHANGED seekFor
    /\ lag' = Lagged

\* An error of track.next() that ends the task like the other errors do.
OnNextErrFails == "failing"

\* if let Ok(buffer) = track.next() { .. } else { break; }: where any error of
\* track.next() takes the task.
OnNextErr == "teardown"

\* What one pass through track.next() and the resampler can come to: the end of
\* the stream when no packet is left; otherwise a packet ("ok"), or, while the
\* run has failures left, an error of the decoder ("err") or, when the packet
\* completes a chunk, an error of the resampling engine ("rserr").
Outcomes(e) ==
    IF ~HasPacket(e) THEN {"eos"}
    ELSE {"ok"} \cup
         (IF faults < MaxFaults
             THEN {"err"} \cup
                  (IF resampler[e] # << >> /\ Len(resampler[e][1]) + 1 = ChunkSize
                      THEN {"rserr"} ELSE {})
             ELSE {})

\* track.next() and the resampling of its packet. An error of track.next() (the
\* end of the stream or any other) breaks out of the inner loop; the packet was
\* taken and progress set before a decoder error. Without a resampler the packet
\* is what is written; with one, its frame joins the input buffer and a full
\* chunk yields one output buffer (tagged by the chunk's first frame) and empties
\* the input buffer; an error of the engine is returned from run() through `?`.
ExecDecode(e) ==
    /\ pc[e] = "decode"
    /\ \E o \in Outcomes(e) :
        /\ faults' = IF o \in {"err", "rserr"} THEN faults + 1 ELSE faults
        /\ IF o = "eos"
              THEN /\ pc' = [pc EXCEPT ![e] = OnNextErr]
                   /\ life' = [life EXCEPT ![track[e]] = "eos"]
                   /\ UNCHANGED <<progress, next_packet, reader, resampler, out>>
              ELSE LET smp == <<track[e], NextTs(e)>>
                       input == IF resampler[e] = << >> THEN << >>
                                ELSE Append(resampler[e][1], smp)
                       buf == IF resampler[e] = << >> THEN << smp >>
                              ELSE IF Len(input) = ChunkSize THEN << input[1] >>
                              ELSE << >>
                   IN /\ progress' = [progress EXCEPT ![e] = NextTs(e)]
                      /\ reader' = [reader EXCEPT ![e] = NextReader(e)]
                      /\ next_packet' = [next_packet EXCEPT ![e] = None]
                      /\ IF o = "err"
                            THEN /\ pc' = [pc EXCEPT ![e] = OnNextErr]
                                 /\ life' = [life EXCEPT ![track[e]] = "err"]
                                 /\ UNCHANGED <<resampler, out>>
                            ELSE IF o = "rserr"
                            THEN /\ pc' = [pc EXCEPT ![e] = OnResamplerErr]
                                 /\ life' = [life EXCEPT ![track[e]] = "rserr"]
                                 /\ resampler' = [resampler EXCEPT ![e] = << input >>]
                                 /\ UNCHANGED out
                            ELSE /\ resampler' = [resampler EXCEPT ![e] =
                                       IF resampler[e] = << >> THEN << >>
                                       ELSE IF Len(input) = ChunkSize THEN << << >> >>
                                       ELSE << input >>]
                                 /\ out' = [out EXCEPT ![e] = buf]
                                 /\ pc' = [pc EXCEPT ![e] =
                                       IF buf = << >> THEN "loopcheck" ELSE "write"]
                                 /\ UNCHANGED life
    /\ UNCHANGED <<transportVars, playerVars, ops, rx, tx, dropped, track, queue,
                   stream, seekerVars, posTrack, texec, drained, seekEpoch, firstWrite, sres,
                   obsVars>>
    /\ UNCHANGED pauseVars
    /\ UNCHANGED cpanic
    /\ UNCHANGED svcTrack
    /\ UNCHANGED unitVars
    /\ UNCHANGED seekFor
    /\ lag' = Lagged

\* A sender that never finds the buffer full.
SendNeverBlocks(q) == FALSE

\* SyncSender::send blocks while the buffer holds its bound of messages.
SendBlocks(q) == Len(q) >= QueueCap

\* output.write: one sample is sent to the bounded queue; send blocks while full.
ExecWrite(e) ==
    /\ pc[e] = "write"
    /\ ~SendBlocks(queue[e])
    /\ LET smp == Head(out[e]) IN
       /\ queue' = [queue EXCEPT ![e] = Append(@, smp)]
       /\ out' = [out EXCEPT ![e] = Tail(@)]
       /\ pc' = [pc EXCEPT ![e] = IF Tail(out[e]) = << >> THEN "loopcheck" ELSE "write"]
       /\ firstWrite' = [firstWrite EXCEPT ![smp[1]] =
                            IF @ = None THEN smp[2] ELSE @]
    /\ UNCHANGED <<transportVars, playerVars, ops, rx, tx, dropped, track, resampler,
                   stream, trackVars, seekerVars, posTrack, texec, life, drained, seekEpoch,
                   sres, obsVars>>
    /\ UNCHANGED pauseVars
    /\ UNCHANGED cpanic
    /\ UNCHANGED svcTrack
    /\ UNCHANGED faults
    /\ UNCHANGED unitVars
    /\ UNCHANGED seekFor
    /\ lag' = Lagged

\* A teardown that also forgets the published position.
TornDownCleared(st) == [st EXCEPT !.running = FALSE, !.position = None]

\* The controller state after the per-track teardown: running <- false.
TornDown(st) == [st EXCEPT !.running = FALSE]

\* Per-track teardown: running <- false, controller_condvar notified; the track
\* and its resampler go out of scope.
ExecTeardown(e) ==
    /\ pc[e] = "teardown"
    /\ ~LockedFor(e)
    /\ IF poisoned
          THEN /\ Unwind(e, "panicked")
               /\ UNCHANGED <<state, spc>>
          ELSE /\ state' = TornDown(state)
               /\ spc' = NotifyController(spc)
               /\ pc' = [pc EXCEPT ![e] = "recv"]
               /\ track' = [track EXCEPT ![e] = 0]
               /\ progress' = [progress EXCEPT ![e] = 0]
               /\ next_packet' = [next_packet EXCEPT ![e] = None]
               /\ reader' = [reader EXCEPT ![e] = 0]
               /\ resampler' = [resampler EXCEPT ![e] = << >>]
               /\ life' = Released(e)
               /\ UNCHANGED <<rx, out, queue, stream>>
    /\ UNCHANGED <<poisoned, playerVars, ops, tx, dropped, sreq, posTrack,
                   texec, drained, seekEpoch, firstWrite, sres, obsVars>>
    /\ UNCHANGED pauseVars
    /\ UNCHANGED cpanic
    /\ UNCHANGED svcTrack
    /\ UNCHANGED faults
    /\ UNCHANGED unitVars
    /\ UNCHANGED seekFor
    /\ lag' = Lagged

\* ---- device callback ----------------------------------------------------

\* A receive that blocks on an empty buffer.
RecvBlocks(q) == q = << >>

\* Receiver::try_recv returns at once, Empty when the buffer holds no message.
TryRecvBlocks(q) == FALSE

\* T::EQUILIBRIUM, the silence written into a slot for which no sample is queued.
Equilibrium == << >>

\* The value the callback writes into the slot it fills.
Slot(q) == IF q = << >> THEN Equilibrium ELSE Head(q)

\* The output callback of a playing stream fills one slot: try_recv takes the oldest
\* queued sample; on an empty queue the slot gets the equilibrium value and the
\* queue is left as it is. The callback reads nothing but its end of the queue.
Callback(e) ==
    /\ Alive(e)
    /\ stream[e]
    /\ ~TryRecvBlocks(queue[e])
    /\ IF Slot(queue[e]) = Equilibrium
          THEN UNCHANGED vars
          ELSE /\ queue' = [queue EXCEPT ![e] = Tail(@)]
               /\ delivered' = IF pauseBuf = None THEN 0 ELSE delivered + 1
               /\ UNCHANGED <<pauseBuf, repeated>>
               /\ UNCHANGED <<transportVars, playerVars, ops, pc, rx, tx, dropped,
                              track, resampler, out, stream, trackVars, seekerVars,
                              histTrackVars, sres, obsVars>>
               /\ UNCHANGED cpanic
               /\ UNCHANGED svcTrack
               /\ UNCHANGED faults
               /\ UNCHANGED unitVars
               /\ UNCHANGED seekFor
               /\ lag' = Lagged

\* ---- specification ------------------------------------------------------

PlayerStep ==
    \/ \E r \in Rates : Queue(r)
    \/ DrainSpawn
    \/ DrainDrop
    \/ WaitUntilEnd
    \/ Join
    \/ DropPlayer

ControllerStep ==
    \/ Play
    \/ Pause
    \/ \E s \in Seekers, d \in SeekTargets : Seek(s, d)
    \/ \E s \in Seekers : SeekWoken(s)
    \/ \E s \in Seekers : SeekSpuriousWake(s)
    \/ Position

ExecStep(e) ==
    \/ ExecRecv(e)
    \/ ExecFail(e)
    \/ ExecSetup(e)
    \/ ExecLoopCheck(e)
    \/ ExecControl(e)
    \/ ExecWoken(e)
    \/ ExecSpuriousWake(e)
    \/ ExecDecode(e)
    \/ ExecWrite(e)
    \/ ExecTeardown(e)

Next ==
    \/ PlayerStep
    \/ ControllerStep
    \/ \E e \in Executors : ExecStep(e)
    \/ \E e \in Executors : Callback(e)

Spec == Init /\ [][Next]_vars

\* ---- the buffered resampler on its own ----------------------------------

\* Vec::with_capacity(chunk_size): the capacity of each channel's input vector.
Capacity == ChunkSize

Least(a, b) == IF a < b THEN a ELSE b

\* fill_f64_buffer_21, for the channels from c on: each channel takes from the
\* packet, from frame `start` on, as many frames as its vector has room for; n
\* is `pushed`, the samples pushed so far over all channels, and the function
\* panics when it is 0 after a channel.
RECURSIVE FillChannels(_, _, _, _, _)
FillChannels(c, buffer, start, ib, n) ==
    IF c > NumChannels
       THEN [input_buffer |-> ib, pushed |-> n, panic |-> FALSE]
       ELSE LET to_take == Capacity - Len(ib[c])
                taken == SubSeq(buffer, start + 1, Least(Len(buffer), start + to_take))
                m == n + Len(taken)
            IN IF m = 0
                  THEN [input_buffer |-> ib, pushed |-> m, panic |-> TRUE]
                  ELSE FillChannels(c + 1, buffer, start,
                                    [ib EXCEPT ![c] = @ \o taken], m)

\* A position advanced by the samples pushed over all channels.
NextPositionUndivided(n, start) == n + start

\* fill_f64_buffer_21 returns pushed / f64_buffer.len() + start.
NextPosition(n, start) == (n \div NumChannels) + start

\* A chunk taken for complete as soon as it holds a frame.
ChunkNonEmpty(ib) == Len(ib[1]) > 0

\* The loop of resample_next ends once the first channel's vector is at capacity.
ChunkFull(ib) == ~(Len(ib[1]) < Capacity)

\* SymphoniaResamplerBuffered::resample: the packet, of n frames, is converted and
\* appended to the queue; the caller then calls next() until it yields None.
Resample(n) ==
    /\ rpc = "idle"
    /\ npackets < MaxPackets
    /\ parts' = [parts EXCEPT !.buffered =
                    [@ EXCEPT !.packets = Append(packets, [i \in 1..n |-> total + i]),
                              !.total = total + n,
                              !.npackets = npackets + 1,
                              !.rpc = "next"]]
    /\ UNCHANGED playVars

\* resample_next, no packet left to fill the chunk with: Ok(None), and the caller's
\* loop ends.
ResampleNextNone ==
    /\ rpc = "next"
    /\ ~ChunkFull(input_buffer)
    /\ packets = << >>
    /\ parts' = [parts EXCEPT !.buffered = [@ EXCEPT !.rpc = "idle"]]
    /\ UNCHANGED playVars

\* resample_next, one turn of its loop: the chunk is filled from the front packet,
\* which is popped once its frames are all copied.
ResampleNextFill ==
    /\ rpc = "next"
    /\ ~ChunkFull(input_buffer)
    /\ packets # << >>
    /\ LET buffer == Head(packets)
           f == FillChannels(1, buffer, buffer_position, input_buffer, 0)
           position == NextPosition(f.pushed, buffer_position)
       IN parts' = [parts EXCEPT !.buffered =
                      IF f.panic
                         THEN [@ EXCEPT !.rpc = "panicked"]
                      ELSE IF position >= Len(buffer)
                         THEN [@ EXCEPT !.input_buffer = f.input_buffer,
                                        !.packets = Tail(packets),
                                        !.buffer_position = 0]
                         ELSE [@ EXCEPT !.input_buffer = f.input_buffer,
                                        !.buffer_position = position]]
    /\ UNCHANGED playVars

\* resample_next, the chunk is full: resample_inner hands the input buffer to the
\* engine and clears it; the caller writes the output and calls next() again.
ResampleInner ==
    /\ rpc = "next"
    /\ ChunkFull(input_buffer)
    /\ parts' = [parts EXCEPT !.buffered =
                    [@ EXCEPT !.chunks = Append(chunks, input_buffer),
                              !.input_buffer = [c \in Channels |-> << >>]]]
    /\ UNCHANGED playVars

ResamplerNext ==
    \/ \E n \in 0..MaxFrames : Resample(n)
    \/ ResampleNextNone
    \/ ResampleNextFill
    \/ ResampleInner

ResamplerSpec == Init /\ [][ResamplerNext]_vars

\* ---- the sample buffer on its own ---------------------------------------

\* The samples of a buffer made by the decoder: frame f of channel c has a value
\* of its own, different from 0 (0.0, the value resize fills with).
SampleOf(c, f) == (c - 1) * MaxFrames + f

\* The planar buffers given to SampleBuf::with_buffer: c channels of f frames
\* each (every channel of a buffer has the same number of frames).
PlanarBuffer(c, f) == [i \in 1..c |-> [j \in 1..f |-> SampleOf(i, j)]]
Buffers == {PlanarBuffer(c, f) : c \in 0..NumChannels, f \in 0..MaxFrames}

\* SampleBuf::frames: the length of the first channel, 0 without one.
Frames(b) == IF Len(b) = 0 THEN 0 ELSE Len(b[1])

\* A buffer read channel after channel.
RECURSIVE ChannelMajor(_)
ChannelMajor(b) == IF b = << >> THEN << >> ELSE Head(b) \o ChannelMajor(Tail(b))

\* self.buffer.iter().map(move |b| b[f]): frame f of every channel, from channel
\* c on.
RECURSIVE FrameOf(_, _, _)
FrameOf(b, f, c) ==
    IF c > Len(b) THEN << >> ELSE << b[c][f] >> \o FrameOf(b, f, c + 1)

\* (0..self.frames()).flat_map(..), from frame f on.
RECURSIVE FramesFrom(_, _)
FramesFrom(b, f) ==
    IF f > Frames(b) THEN << >> ELSE FrameOf(b, f, 1) \o FramesFrom(b, f + 1)

\* SampleBuf::interleaved
Interleaved(b) == FramesFrom(b, 1)

\* ToSample::to_sample: the sample in the sample type T of the device.
ToSample(x) == << "T", x >>

\* CpalAudioOutput::write: every sample of samples.interleaved(), converted, is
\* sent to the queue in that order.
WriteSamples(b) == [k \in 1..Len(Interleaved(b)) |-> ToSample(Interleaved(b)[k])]

\* Vec::truncate
Truncate(v, n) == SubSeq(v, 1, Least(Len(v), n))

\* A resize that appends n values whatever the length is.
VecExtend(v, n, x) == v \o [i \in 1..n |-> x]

\* Vec::resize: cut to n elements, or filled up to n with x.
VecResize(v, n, x) ==
    IF n <= Len(v) THEN SubSeq(v, 1, n) ELSE v \o [i \in 1..(n - Len(v)) |-> x]

\* SampleBuf::resize: the channels are truncated to c, and each channel left is
\* resized to f samples, new ones 0.0.
Resize(b, c, f) ==
    LET t == Truncate(b, c) IN [i \in 1..Len(t) |-> VecResize(t[i], f, 0)]

\* SampleBuf::with_buffer (SampleBuf::new for the buffer of no channel)
WithBuffer(b) ==
    /\ parts' = [parts EXCEPT !.sample_buf =
                    [@ EXCEPT !.sample_buffer = b, !.resized = << >>]]
    /\ UNCHANGED playVars

\* SampleBuf::resize(c, f)
ResizeBuffer(c, f) ==
    /\ parts' = [parts EXCEPT !.sample_buf =
          [@ EXCEPT
             !.sample_buffer = Resize(sample_buffer, c, f),
             !.resized = <<c, f, resized # << >> /\ resized[1] = c /\ resized[2] = f>>]]
    /\ UNCHANGED playVars

\* output.write(&buffer)
WriteBuffer ==
    /\ parts' = [parts EXCEPT !.sample_buf =
                    [@ EXCEPT !.written = WriteSamples(sample_buffer)]]
    /\ UNCHANGED playVars

BufferNext ==
    \/ \E b \in Buffers : WithBuffer(b)
    \/ \E c \in 0..NumChannels, f \in 0..MaxFrames : ResizeBuffer(c, f)
    \/ WriteBuffer

BufferSpec == Init /\ [][BufferNext]_vars

\* ---- the choice of a resampler, and the path without one -----------------

\* The codec parameters a track can come with: a sample rate (the device's or
\* another) or none, a channel layout or none, max_frames_per_packet or none,
\* and the codec.
CodecParameters ==
    [sample_rate : {"absent", "device", "other"},
     channels : {None} \cup Channels,
     max_frames_per_packet : {None} \cup (1..ChunkSize),
     codec : {"mp3", "other"}]

\* Self::DEFAULT_CHUNK_SIZE
DEFAULT_CHUNK_SIZE == 1024

\* The samples per frame of MP3.
Mp3SamplesPerFrame == 1152

\* A chunk size that looks at the codec first.
ChunkSizeCodecFirst(p) ==
    IF p.codec = "mp3" THEN Mp3SamplesPerFrame
    ELSE IF p.max_frames_per_packet # None THEN p.max_frames_per_packet
    ELSE DEFAULT_CHUNK_SIZE

\* SymphoniaResamplerBuffered::new, the chunk size.
ChunkSizeOf(p) ==
    IF p.max_frames_per_packet # None THEN p.max_frames_per_packet
    ELSE IF p.codec = "mp3" THEN Mp3SamplesPerFrame
    ELSE DEFAULT_CHUNK_SIZE

\* SymphoniaResamplerBuffered::new: InvalidCodecParameters without a sample rate
\* or without channels; otherwise what the construction of the engine comes to
\* (engine is "ok" or "err"), with the chunk size it was given.
NewBuffered(p, engine) ==
    IF p.sample_rate = "absent" \/ p.channels = None
       THEN [result |-> "InvalidCodecParameters", chunk_size |-> None]
       ELSE [result |-> engine, chunk_size |-> ChunkSizeOf(p)]

\* An executor for which InvalidCodecParameters is an error like the others.
InvalidCodecParametersFails == "error"

\* Err(ResamplerError::InvalidCodecParameters) => None
OnInvalidCodecParameters == "none"

\* let mut resampler = if .. { None } else { match .. }: no resampler when the
\* track's sample rate is the output's; otherwise the one constructed, none on
\* InvalidCodecParameters, and any other error is returned from run().
SelectResampler(p, engine) ==
    IF p.sample_rate = "device"
       THEN [resampler |-> "none", chunk_size |-> None]
       ELSE LET r == NewBuffered(p, engine) IN
            IF r.result = "ok"
               THEN [resampler |-> "some", chunk_size |-> r.chunk_size]
            ELSE IF r.result = "InvalidCodecParameters"
               THEN [resampler |-> OnInvalidCodecParameters, chunk_size |-> None]
            ELSE [resampler |-> "error", chunk_size |-> None]

\* rx.recv() yields a track with the parameters p, and the resampler is chosen.
Select(p, engine) ==
    /\ selected.resampler = "unset"
    /\ parts' = [parts EXCEPT !.select_task =
                    [@ EXCEPT !.codec_params = p,
                              !.selected = SelectResampler(p, engine)]]
    /\ UNCHANGED playVars

\* if let Ok(buffer) = track.next() { if let Some(..) = resampler { .. } else {
\* output.write(buffer) } }, without a resampler: the buffer track.next() yields
\* is what output.write is given.
NextBypass(b) ==
    /\ selected.resampler = "none"
    /\ Len(buffers) < TrackLen
    /\ parts' = [parts EXCEPT !.select_task =
                    [@ EXCEPT !.buffers = Append(buffers, b),
                              !.sent = sent \o WriteSamples(b)]]
    /\ UNCHANGED playVars

SelectNext ==
    \/ \E p \in CodecParameters, engine \in {"ok", "err"} : Select(p, engine)
    \/ \E f \in 0..MaxFrames : NextBypass(PlanarBuffer(NumChannels, f))

SelectSpec == Init /\ [][SelectNext]_vars

\* ---- track details on their own ------------------------------------------

\* The tags of a metadata revision of one level ("container" or "probe"): a
\* track title, an artist or another key, with a string (which names its level)
\* or a value of another type.
Tags(level) ==
    [std_key : {"TrackTitle", "Artist", "other"},
     value : {<<"String", level>>, <<"Binary">>}]

\* The sequences of at most n elements of S.
RECURSIVE SeqsUpTo(_, _)
SeqsUpTo(S, n) ==
    IF n = 0 THEN {<< >>}
    ELSE LET shorter == SeqsUpTo(S, n - 1)
         IN shorter \cup {Append(q, x) : q \in shorter, x \in S}

\* The visuals of a revision: none, one that is no front cover, a front cover,
\* or a front cover after another visual.
Visuals(level) ==
    LET front == [usage |-> "FrontCover", data |-> level]
        back == [usage |-> "other", data |-> level]
    IN {<< >>, <<back>>, <<front>>, <<back, front>>}

\* The metadata revisions of a level; << >> stands for no revision at all.
Revisions(level) ==
    {<< >>} \cup [tags : SeqsUpTo(Tags(level), MaxTags), visuals : Visuals(level)]

\* metadata.tags().iter().for_each(..), for one key: every tag of that key sets
\* the field, to its string or to None when its value is no string.
RECURSIVE TagField(_, _, _)
TagField(tags, key, field) ==
    IF tags = << >> THEN field
    ELSE TagField(Tail(tags), key,
                  IF Head(tags).std_key = key
                     THEN (IF Head(tags).value[1] = "String"
                              THEN Head(tags).value[2] ELSE "None")
                     ELSE field)

\* metadata.visuals().iter().find(..).cloned(): the first front cover.
RECURSIVE FrontCover(_)
FrontCover(visuals) ==
    IF visuals = << >> THEN "None"
    ELSE IF Head(visuals).usage = "FrontCover" THEN Head(visuals).data
    ELSE FrontCover(Tail(visuals))

\* TrackDetails::read_metadata
ReadMetadata(metadata) ==
    [duration |-> "None",
     title |-> TagField(metadata.tags, "TrackTitle", "None"),
     artist |-> TagField(metadata.tags, "Artist", "None"),
     cover |-> FrontCover(metadata.visuals)]

\* The default track as TrackDetails::new reads it: whether there is one, and
\* whether its codec parameters have a time base and a number of frames.
DefaultTracks == {"none", "no_time_base", "no_n_frames", "timed"}

\* TrackDetails::new: the container's revision is read if there is one; cover
\* and title are taken from the probe's revision when the container gave none;
\* the duration comes from the default track.
TrackDetailsNew(format, probe, default_track) ==
    LET new == IF format # << >> THEN ReadMetadata(format)
               ELSE [duration |-> "None", title |-> "None",
                     artist |-> "None", cover |-> "None"]
        new_2 == IF probe # << >> THEN ReadMetadata(probe) ELSE new
    IN [duration |-> IF default_track = "timed" THEN "Some" ELSE "None",
        title |-> IF probe # << >> /\ new.title = "None" THEN new_2.title
                  ELSE new.title,
        artist |-> new.artist,
        cover |-> IF probe # << >> /\ new.cover = "None" THEN new_2.cover
                  ELSE new.cover]

\* decode(): TrackDetails::new on what the probe found.
NewDetails(format, probe, default_track) ==
    /\ details = << >>
    /\ parts' = [parts EXCEPT !.track_details =
                    [container |-> format, probed |-> probe,
                     details |-> TrackDetailsNew(format, probe, default_track)]]
    /\ UNCHANGED playVars

\* What the format reader holds (format.metadata().current()) and what the probe
\* found in front of the container (probed.metadata.get()).
FormatRevisions == Revisions("container")
ProbeRevisions == Revisions("probe")

DetailsNext ==
    /\ details = << >>
    /\ \E format \in FormatRevisions, probe \in ProbeRevisions,
          default_track \in DefaultTracks :
           NewDetails(format, probe, default_track)

DetailsSpec == Init /\ [][DetailsNext]_vars

\* ---- the decoded track on its own ----------------------------------------

\* DecodedTrack::next finds a packet: the cached one, or one the reader has left.
PacketLeft(dt) == dt.next_packet # None \/ dt.reader < TrackLen

\* match self.next_packet.take(): the cached packet, else the reader's next one.
TakenTs(dt) == IF dt.next_packet # None THEN dt.next_packet ELSE dt.reader

\* A next() that reads a packet from the reader whether one was cached or not.
ReaderAlwaysRead(dt) == dt.reader + 1

\* The reader after next(): it is read only when no packet was cached.
ReaderAfterNext(dt) == IF dt.next_packet # None THEN dt.reader ELSE dt.reader + 1

\* DecodedTrack::next: without a packet left the error of the reader is returned
\* and nothing changes; otherwise the packet is taken, the cache left empty and
\* progress set to its timestamp, and the packet is decoded (result "next") or
\* the decoder's error returned (result "error").
TrackNext(result) ==
    /\ Len(calls) < MaxOps
    /\ IF PacketLeft(decoded)
          THEN parts' = [parts EXCEPT !.decoded_track =
                  [decoded |-> [progress |-> TakenTs(decoded),
                                next_packet |-> None,
                                reader |-> ReaderAfterNext(decoded)],
                   calls |-> Append(calls, <<result, TakenTs(decoded)>>)]]
          ELSE parts' = [parts EXCEPT !.decoded_track =
                  [@ EXCEPT !.calls = Append(calls, <<"end", None>>)]]
    /\ UNCHANGED playVars

\* DecodedTrack::seek that succeeds: the reader is positioned at the target, the
\* decoder reset, and the packet there read ahead into next_packet (next_packet()
\* sets progress to its timestamp).
TrackSeek(d) ==
    /\ Len(calls) < MaxOps
    /\ SeekOk(d)
    /\ parts' = [parts EXCEPT !.decoded_track =
                    [decoded |-> [progress |-> d, next_packet |-> d,
                                  reader |-> d + 1],
                     calls |-> Append(calls, <<"seek", d>>)]]
    /\ UNCHANGED playVars

DecodedNext ==
    \/ \E result \in {"next", "error"} : TrackNext(result)
    \/ \E d \in SeekTargets : TrackSeek(d)

DecodedSpec == Init /\ [][DecodedNext]_vars

\* ---- properties ---------------------------------------------------------

\* A step the code takes on its own, with no further API call and no spurious
\* wake-up: a step of an executor task, of the device callback, of a woken seeker,
\* or the rest of a drain() or wait_until_end() under way.
ExecProgress(e) ==
    \/ ExecRecv(e)
    \/ ExecFail(e)
    \/ ExecSetup(e)
    \/ ExecLoopCheck(e)
    \/ ExecControl(e)
    \/ ExecWoken(e)
    \/ ExecDecode(e)
    \/ ExecWrite(e)
    \/ ExecTeardown(e)

\* A callback that moves a queued sample to the device.
Delivers(e) == Callback(e) /\ queue[e] # << >>

SystemStep ==
    \/ \E e \in Executors : ExecProgress(e) \/ Delivers(e)
    \/ \E s \in Seekers : SeekWoken(s)
    \/ DrainDrop
    \/ Join

\* Executor e holds a dequeued track between its per-track setup and teardown.
HasTrackLoaded(e) ==
    pc[e] \in {"loopcheck", "control", "paused", "woken", "decode", "write", "teardown"}

\* C1: whenever a seek(d) call made while running and playing returns with playing
\* still true, the executor has serviced that request (repositioned the track's
\* decoder to d) and the resampler holds no frame buffered before the seek.
C1_SeekReturnsApplied ==
    [][\A s \in Seekers :
          (spc[s] = "woken" /\ spc'[s] = "idle" /\ state.playing)
              => sres[s] = "applied"]_vars

\* C2: a seek(d) call made while running and playing, on a track that still had
\* packets to decode, is never left waiting with playing true and nothing more for
\* the code to do: the executor services it and the call returns.
C2_SeekIsServiced ==
    \A s \in Seekers :
        (spc[s] = "waiting" /\ sres[s] = "pending" /\ state.playing)
            => ENABLED SystemStep

\* C3: a caller blocked in seek() that the per-track teardown wakes (running is
\* false, controller_condvar was notified) returns from the call.
C3_TeardownReleasesSeeker ==
    [][\A s \in Seekers :
          (spc[s] = "woken" /\ ~state.running /\ ~poisoned /\ spc'[s] # spc[s])
              => spc'[s] = "idle"]_vars

\* C4: running is true exactly when the player's current executor has a dequeued
\* track loaded.
C4_RunningIffLoaded == state.running <=> HasTrackLoaded(executor)

\* C5: of two consecutive position() observations made while playing, within one
\* track and with no seek() call between them, the second is >= the first.
C5_PositionMonotone ==
    [][(Position /\ obs # None /\ state.playing /\ state.position # None
                 /\ obsTrack = posTrack)
           => state.position >= obs]_vars

\* C6: an executor that was dropped and whose task is not over can always take a
\* step of its own towards its exit, whatever it is blocked on.
C6_DroppedExecutorExits ==
    \A e \in Executors :
        (dropped[e] /\ Alive(e)) => ENABLED (ExecProgress(e) \/ Delivers(e))

\* C7: a track that was still in the channel when drain() was called never has a
\* sample written to an output.
C7_DrainedNeverWritten == \A t \in drained : firstWrite[t] = None

\* C8: a track queued after a drain() is loaded only by the new executor and, no
\* seek() having stored a request since that drain, its first written sample is
\* its first packet's.
C8_QueuedAfterDrainFromStart ==
    /\ \A e \in Executors : track[e] # 0 => texec[track[e]] = e
    /\ \A t \in Tracks :
          (texec[t] > 1 /\ seekEpoch < texec[t] /\ firstWrite[t] # None)
              => firstWrite[t] = 0

\* C9: wait_until_end() returns only after every track queued on the executor has
\* been played to its end, and while it waits with playing true the code always
\* has a step to take.
C9_WaitUntilEnd ==
    /\ ppc = "ended" =>
          \A t \in Tracks : texec[t] = executor => life[t] = "played"
    /\ (ppc = "joining" /\ state.playing) => ENABLED SystemStep

\* C10: on one executor, no sample of a later-queued track is written before the
\* earlier-queued track has reached its end of stream (or failed on an error of
\* track.next()) and been torn down, and at most one of the executor's tracks is
\* loaded at a time.
C10_Sequential ==
    /\ \A t1, t2 \in Tracks :
          (t1 < t2 /\ texec[t1] # 0 /\ texec[t1] = texec[t2] /\ firstWrite[t2] # None)
              => life[t1] \in {"played", "failed", "truncated"}
    /\ \A e \in Executors :
          Cardinality({t \in Tracks : texec[t] = e
                                        /\ life[t] \in {"loaded", "eos", "err", "rserr"}}) <= 1

\* C10's case: a second track of the same executor is being written after the
\* first was played to its end.
C10_Witness ==
    \E t1, t2 \in Tracks :
        /\ t1 < t2 /\ texec[t1] # 0 /\ texec[t1] = texec[t2]
        /\ firstWrite[t2] # None /\ life[t1] = "played"

\* C11: no executor stays in the paused wait on executor_condvar while playing is
\* true, and an executor woken from that wait that acquires the mutex while
\* playing is true resumes its output stream and goes on to decode.
C11_NoLostWakeup ==
    \A e \in Executors :
        /\ pc[e] = "paused" => ~state.playing
        /\ (pc[e] = "woken" /\ state.playing /\ ~poisoned)
              => ENABLED (ExecWoken(e) /\ pc'[e] = "decode" /\ stream'[e])

\* C11's case: play() has woken an executor that had paused its stream in the
\* wait with a track loaded.
C11_Witness ==
    \E e \in Executors :
        pc[e] = "woken" /\ state.playing /\ track[e] # 0 /\ ~stream[e] /\ ~poisoned

\* No step of the code itself is left: every task, callback and caller rests.
Quiescent == ~ENABLED SystemStep

\* C12: once the system has come to rest after a pause() with no later play(),
\* the callbacks have delivered since that pause() exactly the samples that were
\* in the output queue when it was called.
C12_PauseDeliversBuffered ==
    (pauseBuf # None /\ Quiescent) => delivered = pauseBuf

\* C13: a seek(d) called while running is false returns at once and changes
\* nothing of the transport state (running, playing, position, seek_position),
\* of the executors or of their tracks.
C13_SeekNotRunningNoEffect ==
    [][\A s \in Seekers, d \in SeekTargets :
          (Seek(s, d) /\ ~state.running)
              => /\ state' = state
                 /\ spc'[s] = "idle"
                 /\ UNCHANGED <<poisoned, execVars, trackVars, sreq>>]_vars

\* C13's case: a seek was called while running was false, and has returned.
C13_Witness ==
    \E s \in Seekers :
        sres[s] = "ignored" /\ spc[s] = "idle" /\ ~state.running
            /\ state.seek_position = None

\* C14: a seek(d) called while running is true and playing is false stores its
\* request and returns without waiting, and once it has, no executor decodes a
\* further packet with playing true while that request is still pending.
C14_SeekWhilePaused ==
    [][/\ \A s \in Seekers, d \in SeekTargets :
             (Seek(s, d) /\ state.running /\ ~state.playing)
                 => (spc'[s] = "idle" /\ state'.seek_position = d)
       /\ \A e \in Executors :
             (ExecDecode(e) /\ HasPacket(e) /\ state.playing
                            /\ state.seek_position # None)
                 => \A s \in Seekers : sres[s] # "deferred"]_vars

C16_SeekPastEndServiced ==
    [][\A e \in Executors :
          (ExecControl(e) /\ state.seek_position # None
                          /\ ~SeekOk(state.seek_position))
              => (state'.seek_position = None /\ pc'[e] \in {"decode", "paused"})]_vars

C18_PlayPauseIdempotent ==
    [][/\ Pause =>
            /\ state' = [state EXCEPT !.playing = FALSE]
            /\ ~state.playing =>
                  /\ state' = state
                  /\ \A e \in Executors :
                        pc'[e] = pc[e] \/ (pc[e] = "paused" /\ pc'[e] = "woken")
       /\ Play =>
            /\ state' = [state EXCEPT !.playing = TRUE]
            /\ state.playing => (state' = state /\ pc' = pc)
       /\ \A e \in Executors :
            (ExecWoken(e) /\ ~state.playing) =>
                /\ pc'[e] = "paused" /\ ~stream'[e]
                /\ UNCHANGED <<state, rx, track, resampler, out, queue, trackVars>>]_vars

\* C18's case: a pause() has been made while playing was already false, and an
\* executor with a track loaded is woken from the paused wait, about to check
\* the flag again.
C18_Witness ==
    /\ repeated /\ ~state.playing
    /\ \E e \in Executors : pc[e] = "woken" /\ track[e] # 0 /\ ~stream[e]

\* C19: when a blocked seek(d) returns after the executor serviced it, the
\* published position is one published at or after that servicing: the position
\* of the repositioned track at d or later, or that of a track queued after it.
C19_PositionAfterSeek ==
    [][\A s \in Seekers :
          (spc[s] = "woken" /\ spc'[s] = "idle" /\ sres[s] \in {"applied", "residue"})
              => /\ state.position # None
                 /\ posTrack >= svcTrack
                 /\ posTrack = svcTrack => state.position >= sreq[s]]_vars

\* C20: once an executor has applied a seek, its resampler holds no frame decoded
\* before the seek, so that no chunk mixes frames from before and after it.
C20_ResamplerResetOnSeek ==
    [][\A e \in Executors :
          (ExecControl(e) /\ state.seek_position # None /\ SeekOk(state.seek_position))
              => ~HoldsFrames(resampler'[e])]_vars

C22_CallbackNeverBlocks ==
    \A e \in Executors :
        (Alive(e) /\ stream[e])
            => ENABLED (/\ Callback(e)
                        /\ UNCHANGED <<transportVars, pc, out, trackVars>>
                        /\ queue[e] = << >> =>
                              (Slot(queue[e]) = Equilibrium /\ queue' = queue)
                        /\ queue[e] # << >> =>
                              (Slot(queue[e]) = Head(queue[e])
                                  /\ queue'[e] = Tail(queue[e])))

\* C22's case: between two tracks the executor waits in recv, its stream plays and
\* its queue is empty: the callback writes silence.
C22_Witness ==
    \E e \in Executors :
        /\ pc[e] = "recv" /\ stream[e] /\ queue[e] = << >>
        /\ \E t \in Tracks : texec[t] = e /\ life[t] = "played"

\* C23: an executor starts to decode only from a critical section in which it
\* read playing = true, and sends samples only of a packet so decoded; while
\* every call made so far was a queue() it decodes nothing and queues no sample;
\* and while it is in its paused wait its stream is paused and its output queue
\* and unsent samples stay as they are, the stream resuming only once playing is
\* read true.
C23_WritesOnlyWhilePlaying ==
    [][\A e \in Executors :
          /\ (pc'[e] = "decode" /\ pc[e] # "decode")
                => (state.playing /\ pc[e] \in {"control", "woken"})
          /\ (pc'[e] = "write" /\ pc[e] # "write") => pc[e] = "decode"
          /\ Len(queue'[e]) > Len(queue[e]) => pc[e] = "write"
          /\ ops' = nextTrack'
                => (queue'[e] = << >> /\ pc'[e] \notin {"decode", "write"})
          /\ pc[e] \in {"paused", "woken"}
                => /\ ~stream[e]
                   /\ queue'[e] = queue[e] /\ out'[e] = out[e]
                   /\ stream'[e] => (state.playing /\ pc'[e] = "decode")]_vars

\* C23's case: pause() has sent an executor into the paused wait with samples
\* still in its output queue.
C23_Witness ==
    \E e \in Executors :
        pc[e] = "paused" /\ ~state.playing /\ queue[e] # << >> /\ track[e] # 0

\* C23 as stated: as long as every call made was a queue(), the stream of the
\* executor the tracks were queued on is paused.
C23_PausedBeforeFirstPlay ==
    (ops = nextTrack /\ nextTrack > 0) => ~stream[executor]

\* C24: after a pause(), a stored seek request or the setting of its drop flag,
\* an executor decodes at most one more packet before it acts on the change
\* (enters the paused wait, services the request, leaves the inner loop).
C24_BoundedResponse ==
    \A e \in Executors :
        lag[e].pause <= 1 /\ lag[e].seek <= 1 /\ lag[e].drop <= 1

\* C24's case: an executor has decoded a packet after its drop flag was set and
\* is back at the loop condition, and another has done so after a pause().
C24_Witness ==
    /\ \E e \in Executors : lag[e].drop = 1 /\ pc[e] = "loopcheck"
    /\ \E e \in Executors : lag[e].pause = 1 /\ pc[e] = "control"

\* C25: an executor writes a sample to its output only while no other executor
\* is decoding or writing a packet, and never after an executor that replaced
\* it has written a sample of a track of its own.
C25_OneProducer ==
    [][\A e \in Executors :
          ExecWrite(e) =>
              \A e2 \in Executors \ {e} :
                  /\ pc[e2] \notin {"decode", "write"}
                  /\ e2 > e => \A t \in Tracks :
                                  texec[t] = e2 => firstWrite[t] = None]_vars

\* C26: an error of track.next(), the end of the stream or any other, takes the
\* executor to the per-track teardown and changes nothing of the transport
\* state, of its channel or of its output; the teardown sets running false,
\* notifies controller_condvar and takes the task, alive, back to recv with its
\* output as it was; and a task in recv with a track queued can take it.
C26_NextErrorEndsTrackOnly ==
    [][\A e \in Executors :
          /\ (ExecDecode(e) /\ life'[track[e]] \in {"eos", "err"})
                => /\ pc'[e] = "teardown"
                   /\ UNCHANGED <<transportVars, rx, tx, queue, stream, seekerVars>>
          /\ (pc[e] = "teardown" /\ pc'[e] # "teardown")
                => /\ pc'[e] = "recv"
                   /\ state' = [state EXCEPT !.running = FALSE]
                   /\ spc' = NotifyController(spc)
                   /\ UNCHANGED <<poisoned, rx, tx, queue, stream>>
          /\ (pc[e] = "recv" /\ rx[e] # << >>) => ENABLED ExecRecv(e)]_vars

\* C26's case: a track failed on a decoder error before its end, and the same
\* executor has since written samples of the track queued after it.
C26_Witness ==
    \E t1, t2 \in Tracks :
        /\ t1 < t2 /\ texec[t1] # 0 /\ texec[t1] = texec[t2]
        /\ life[t1] = "failed" /\ firstWrite[t2] # None /\ Alive(texec[t2])

\* C27: the task of an executor one of whose tracks met an error of the
\* resampler (of its construction or of the engine) is alive, and a track
\* queued on that executor afterwards is accepted.
C27_ResamplerErrorEndsTrackOnly ==
    \A t \in Tracks :
        life[t] \in {"rserr", "aborted"}
            => /\ Alive(texec[t])
               /\ \A u \in Tracks : (u > t /\ texec[t] = executor) => life[u] # "refused"

\* The frames of channel c in a sequence of chunks handed to the engine.
RECURSIVE ChunkFrames(_, _)
ChunkFrames(cs, c) ==
    IF cs = << >> THEN << >> ELSE Head(cs)[c] \o ChunkFrames(Tail(cs), c)

\* The frames of a sequence of packets.
RECURSIVE PacketFrames(_)
PacketFrames(ps) ==
    IF ps = << >> THEN << >> ELSE Head(ps) \o PacketFrames(Tail(ps))

\* The frames pushed that no chunk has taken in yet.
Unread ==
    IF packets = << >> THEN << >>
    ELSE SubSeq(Head(packets), buffer_position + 1, Len(Head(packets)))
            \o PacketFrames(Tail(packets))

\* The frames the resampler holds: in the chunk being filled and in its queue.
FramesBuffered == Len(input_buffer[1]) + Len(Unread)

\* C28: as long as the resampler has not failed, on every channel the chunks
\* handed to the engine, then the partial chunk, then the frames not yet copied
\* are the frames pushed, each once and in order; and once the caller's loop has
\* drained it, the engine has been invoked total \div ChunkSize times and the
\* partial chunk holds the total % ChunkSize frames left.
C28_ChunkingConservesFrames ==
    rpc # "panicked" =>
        /\ \A c \in Channels :
              ChunkFrames(chunks, c) \o input_buffer[c] \o Unread
                  = [i \in 1..total |-> i]
        /\ rpc = "idle" =>
              /\ packets = << >>
              /\ Len(chunks) = total \div ChunkSize
              /\ \A c \in Channels : Len(input_buffer[c]) = total % ChunkSize

\* C28's case: packets of different sizes were pushed and drained, chunks were
\* filled across packet boundaries, and a partial chunk is left.
C28_Witness ==
    /\ rpc = "idle" /\ npackets = MaxPackets
    /\ Len(chunks) > 1
    /\ input_buffer[1] # << >>
    /\ total % npackets # 0

\* C29: the engine is handed the input buffer only when every channel holds
\* exactly ChunkSize frames, and the buffer is empty afterwards; the channels
\* hold the same number of frames after every step; and while fewer than
\* ChunkSize frames are buffered no step invokes the engine, and with the queue
\* empty the call returns None.
C29_EngineOnFullChunkOnly ==
    [][/\ chunks' # chunks =>
             /\ \A c \in Channels :
                   Len(input_buffer[c]) = ChunkSize /\ input_buffer'[c] = << >>
             /\ chunks' = Append(chunks, input_buffer)
       /\ \A c1, c2 \in Channels : Len(input_buffer'[c1]) = Len(input_buffer'[c2])
       /\ (rpc = "next" /\ FramesBuffered < ChunkSize) =>
             /\ chunks' = chunks
             /\ packets = << >> => (ResampleNextNone /\ rpc' = "idle")]_vars

\* C29's case: a chunk completed by frames of two packets is about to be handed
\* to the engine, part of the front packet still to copy.
C29_Witness ==
    /\ rpc = "next" /\ ChunkFull(input_buffer)
    /\ buffer_position > 0 /\ packets # << >>
    /\ chunks # << >>

\* C30: a packet of no frames at the front of the queue is passed over: the call
\* does not panic, the chunk being filled keeps its frames and the engine is not
\* invoked.
C30_EmptyPacketHarmless ==
    [][(rpc = "next" /\ packets # << >> /\ Head(packets) = << >>)
           => /\ rpc' # "panicked"
              /\ UNCHANGED <<input_buffer, chunks, buffer_position>>]_vars

\* Sample k of a buffer read frame after frame, every channel of a frame in turn.
InterleavedAt(b, k) == b[((k - 1) % Len(b)) + 1][((k - 1) \div Len(b)) + 1]

\* The samples of a sequence of buffers in that order, each in the device's type.
RECURSIVE SamplesOf(_)
SamplesOf(bs) ==
    IF bs = << >> THEN << >>
    ELSE LET b == Head(bs) IN
         [k \in 1..(Len(b) * Frames(b)) |-> ToSample(InterleavedAt(b, k))]
             \o SamplesOf(Tail(bs))

\* C31: the executor uses no resampler when the track's sample rate is the
\* output's, or when the codec parameters lack a sample rate or a channel
\* layout; it uses one only when the rate is known, differs from the output's
\* and the channels are known, and then always unless the engine's construction
\* ends the task; and without a resampler the samples sent to the output are
\* those of the decoded buffers, each once, in decode order, frame after frame.
C31_BypassIsIdentity ==
    selected.resampler # "unset" =>
        LET resamples == /\ codec_params.sample_rate = "other"
                         /\ codec_params.channels # None
        IN /\ ~resamples => selected.resampler = "none"
           /\ resamples => selected.resampler \in {"some", "error"}
           /\ selected.resampler = "none" => sent = SamplesOf(buffers)
           /\ selected.resampler # "none" => sent = << >>

\* C31's case: a track at another rate than the output's whose parameters lack
\* the channels was played without a resampler, buffers of different sizes sent.
C31_Witness ==
    /\ selected.resampler = "none"
    /\ codec_params.sample_rate = "other" /\ codec_params.channels = None
    /\ Len(buffers) = TrackLen
    /\ Frames(buffers[1]) > Frames(buffers[2]) /\ Frames(buffers[2]) > 0

\* C32: the chunk size of a buffered resampler that was constructed is the
\* codec's max_frames_per_packet when it reports one, otherwise 1152 for MP3,
\* otherwise 1024.
C32_ChunkSize ==
    selected.resampler = "some" =>
        /\ codec_params.max_frames_per_packet # None
              => selected.chunk_size = codec_params.max_frames_per_packet
        /\ (codec_params.max_frames_per_packet = None /\ codec_params.codec = "mp3")
              => selected.chunk_size = Mp3SamplesPerFrame
        /\ (codec_params.max_frames_per_packet = None /\ codec_params.codec # "mp3")
              => selected.chunk_size = DEFAULT_CHUNK_SIZE

\* C32's case: a resampler was built for an MP3 track whose codec reports no
\* max_frames_per_packet.
C32_Witness ==
    /\ selected.resampler = "some"
    /\ codec_params.max_frames_per_packet = None /\ codec_params.codec = "mp3"
    /\ selected.chunk_size = Mp3SamplesPerFrame

\* C34: interleaved() yields channels * frames samples, the k-th (from 0) that of
\* channel k mod C at frame k div C, and write sends exactly these samples, each
\* converted to the device's type, in that order.
C34_InterleavedOrder ==
    [][LET b == sample_buffer
           n == Len(b) * Frames(b)
       IN /\ Len(Interleaved(b)) = n
          /\ \A k \in 0..(n - 1) :
                Interleaved(b)[k + 1] = b[(k % Len(b)) + 1][(k \div Len(b)) + 1]
          /\ WriteBuffer =>
                written' = [k \in 1..n |->
                               ToSample(b[((k - 1) % Len(b)) + 1][((k - 1) \div Len(b)) + 1])]]_vars

\* C34's case: a buffer of several channels and several frames was written.
C34_Witness ==
    /\ Len(sample_buffer) = NumChannels /\ Frames(sample_buffer) = MaxFrames
    /\ written = WriteSamples(sample_buffer)

\* C35: after resize(c, f) the buffer has exactly c channels of f frames each,
\* the samples it had at a channel below c and a frame below f are kept and
\* every other position holds 0.0.
C35_ResizeShape ==
    [][\A c \in 0..NumChannels, f \in 0..MaxFrames :
          ResizeBuffer(c, f) =>
              /\ Len(sample_buffer') = c
              /\ \A i \in 1..Len(sample_buffer') :
                    /\ Len(sample_buffer'[i]) = f
                    /\ \A j \in 1..f :
                          sample_buffer'[i][j] =
                              IF i <= Len(sample_buffer) /\ j <= Len(sample_buffer[i])
                                 THEN sample_buffer[i][j] ELSE 0]_vars

\* C36: a resize(c, f) called right after a resize(c, f) leaves the buffer as
\* the first one left it.
C36_ResizeIdempotent ==
    [][\A c \in 0..NumChannels, f \in 0..MaxFrames :
          (ResizeBuffer(c, f) /\ resized # << >> /\ resized[1] = c /\ resized[2] = f)
              => sample_buffer' = sample_buffer]_vars

\* C36's case: a resize that cut channels and added frames was called twice.
C36_Witness ==
    /\ resized # << >> /\ resized[3]
    /\ Len(sample_buffer) > 0 /\ Len(sample_buffer) < NumChannels
    /\ \E j \in 1..Frames(sample_buffer) :
          sample_buffer[1][j] = 0 /\ sample_buffer[1][1] # 0

\* What a metadata revision (or the lack of one) says of a field.
LevelValue(metadata, field) ==
    IF metadata = << >> THEN "None" ELSE ReadMetadata(metadata)[field]

\* C37: each of title, artist and front cover of the track details is the
\* container-level value when there is one, otherwise the stream-level value
\* when there is one, otherwise none.
C37_DetailsFallBack ==
    details # << >> =>
        \A field \in {"title", "artist", "cover"} :
            details[field] =
                IF LevelValue(container, field) # "None"
                   THEN LevelValue(container, field)
                   ELSE LevelValue(probed, field)

\* The index of the last seek among the calls made on the track (0: none).
RECURSIVE LastSeek(_)
LastSeek(n) ==
    IF n = 0 THEN 0 ELSE IF calls[n][1] = "seek" THEN n ELSE LastSeek(n - 1)

\* C33: right after a successful seek the cache holds the packet read ahead and
\* progress is its timestamp, also when the call before was a seek as well; the
\* next() calls after the seek take the packet read ahead, then the packets that
\* follow it, each once and none left out, up to the end of the stream; and the
\* cache is empty after the first of them.
C33_SeekPrefetch ==
    LET s == LastSeek(Len(calls)) IN
    s > 0 =>
        /\ s = Len(calls) =>
              /\ decoded.next_packet = calls[s][2]
              /\ decoded.progress = calls[s][2]
        /\ s < Len(calls) => decoded.next_packet = None
        /\ \A i \in (s + 1)..Len(calls) :
              calls[i][2] = IF calls[s][2] + (i - s) - 1 < TrackLen
                               THEN calls[s][2] + (i - s) - 1 ELSE None

\* C33's case: a seek right after another seek, then two next() calls.
C33_Witness ==
    /\ Len(calls) >= 4
    /\ calls[1][1] = "seek" /\ calls[2][1] = "seek" /\ calls[1][2] # calls[2][2]
    /\ calls[3] = <<"next", calls[2][2]>>
    /\ calls[4] = <<"next", calls[2][2] + 1>>

\* C38: an executor services a seek request only on a track that was loaded when
\* seek() stored the request.
C38_SeekOnlyItsTrack ==
    [][\A e \in Executors :
          (ExecControl(e) /\ state.seek_position # None /\ state'.seek_position = None)
              => track[e] \in seekFor]_vars

\* Executor e is blocked: in rx.recv() on an empty channel whose Sender lives, or
\* in output.write on a full queue.
Blocked(e) ==
    \/ pc[e] = "recv" /\ rx[e] = << >> /\ tx[e]
    \/ pc[e] = "write" /\ SendBlocks(queue[e])

C40_NoWriteWhileStreamPaused ==
    \A e \in Executors :
        /\ pc[e] \in {"decode", "write"} => stream[e]
        /\ (pc[e] = "write" /\ SendBlocks(queue[e])) =>
              ENABLED (Delivers(e) /\ ~SendBlocks(queue'[e]))

\* C40's case: pause() was called while an executor was blocked in output.write
\* on a full queue; its stream still plays.
C40_Witness ==
    /\ ~state.playing /\ pauseBuf # None
    /\ \E e \in Executors :
          pc[e] = "write" /\ SendBlocks(queue[e]) /\ stream[e] /\ track[e] # 0

====
